---- MODULE Spec2Model ----
(***************************************************************************)
(* Model of hermes' SQS-triggered mail dispatcher (src/main.go):           *)
(* HandleRequest, buildMailContent, exitErrorf, and the library calls they *)
(* make (encoding/json, text/template, html/template, gomail).             *)
(*                                                                         *)
(* A Go string is a sequence of one-character strings; "" is <<>>.  The    *)
(* character e-acute is written "U+00E9".                                  *)
(***************************************************************************)
EXTENDS Integers, Sequences, FiniteSets, TLC

\* Largest number of records in one SQS event.
MaxBatch == 2

\* envDefault of config.SMTPPort.
DefaultSMTPPort == 465

----------------------------------------------------------------------------
\* Text helpers

RECURSIVE Flatten(_)
Flatten(ss) == IF ss = <<>> THEN <<>> ELSE Head(ss) \o Flatten(Tail(ss))

Chars(s) == {s[i] : i \in 1..Len(s)}

\* Number of occurrences of character c in s.
RECURSIVE Count(_, _)
Count(c, s) ==
  IF s = <<>> THEN 0
  ELSE (IF Head(s) = c THEN 1 ELSE 0) + Count(c, Tail(s))

\* The printable ASCII characters, U+0020 to U+007E, in code order (the
\* grave accent is written "U+0060").
Printable ==
  <<
    " ", "!", "\"", "#", "$", "%", "&", "'", "(", ")", "*", "+",
    ",", "-", ".", "/", "0", "1", "2", "3", "4", "5", "6", "7",
    "8", "9", ":", ";", "<", "=", ">", "?", "@", "A", "B", "C",
    "D", "E", "F", "G", "H", "I", "J", "K", "L", "M", "N", "O",
    "P", "Q", "R", "S", "T", "U", "V", "W", "X", "Y", "Z", "[",
    "\\", "]", "^", "_", "U+0060", "a", "b", "c", "d", "e", "f", "g",
    "h", "i", "j", "k", "l", "m", "n", "o", "p", "q", "r", "s",
    "t", "u", "v", "w", "x", "y", "z", "{", "|", "}", "~"
  >>

\* The set of printable ASCII characters.
PrintableChars == Chars(Printable)

\* The byte of every ASCII character of the alphabet.
bytes ==
  [c \in PrintableChars \cup {"\t", "\n", "\r"} |->
     IF c = "\t" THEN 9
     ELSE IF c = "\n" THEN 10
     ELSE IF c = "\r" THEN 13
     ELSE 31 + (CHOOSE i \in 1..Len(Printable) : Printable[i] = c)]

\* The byte of an ASCII character.
Ord(c) == bytes[c]

\* Characters outside ASCII (the model's alphabet has one).
NonASCII == {"U+00E9"}

\* The UTF-8 bytes of one character.
UTF8Bytes(c) == IF c = "U+00E9" THEN <<195, 169>> ELSE <<Ord(c)>>

\* The UTF-8 bytes of a string.
Bytes(s) == Flatten([i \in 1..Len(s) |-> UTF8Bytes(s[i])])

\* mime: "0123456789ABCDEF".
upperhex ==
  <<"0", "1", "2", "3", "4", "5", "6", "7", "8", "9", "A", "B", "C", "D",
    "E", "F">>

\* mime: needsEncoding(s), a byte outside ' '..'~' other than tab.
needsEncoding(s) ==
  \E i \in 1..Len(s) : s[i] \notin PrintableChars /\ s[i] # "\t"

\* mime: maxEncodedWordLen - len("=?UTF-8?q?") - len("?=") with
\* maxEncodedWordLen = 75, the longest content of one encoded word.
maxContentLen == 63

\* mime: base64.StdEncoding.DecodedLen(maxContentLen).
maxBase64Len == 45

\* mime WordEncoder.openWord: "=?UTF-8?q?" or "=?UTF-8?b?".
openWord(e) == <<"=", "?", "U", "T", "F", "-", "8", "?", e, "?">>

\* mime WordEncoder.closeWord.
closeWord == <<"?", "=">>

\* mime WordEncoder.splitWord: close the word, write one space, open another.
splitWord(e) == closeWord \o <<" ">> \o openWord(e)

\* mime writeQString: one character inside a Q encoded word.
QChar(c) ==
  IF c = " " THEN <<"_">>
  ELSE IF c \in PrintableChars \ {"=", "?", "_"} THEN <<c>>
  ELSE LET bs == UTF8Bytes(c)
       IN Flatten([i \in 1..Len(bs) |->
                     <<"=", upperhex[(bs[i] \div 16) + 1],
                       upperhex[(bs[i] % 16) + 1]>>])

\* mime WordEncoder.qEncode: a character that would take the word's content
\* past maxContentLen starts a new encoded word.
RECURSIVE qEncode(_, _)
qEncode(s, currentLen) ==
  IF s = <<>> THEN <<>>
  ELSE LET enc == QChar(Head(s))
       IN IF currentLen + Len(enc) > maxContentLen
            THEN splitWord("q") \o enc \o qEncode(Tail(s), Len(enc))
            ELSE enc \o qEncode(Tail(s), currentLen + Len(enc))

\* gomail Message.encodeString: mime.QEncoding.Encode("UTF-8", value).
encodeString(value) ==
  IF ~needsEncoding(value) THEN value
  ELSE openWord("q") \o qEncode(value, 0) \o closeWord

\* gomail Message.encodeHeader: every value of a header is encoded.
encodeHeader(values) == [i \in 1..Len(values) |-> encodeString(values[i])]

\* encoding/base64: the standard alphabet.
encodeStd ==
  <<
    "A", "B", "C", "D", "E", "F", "G", "H", "I", "J", "K", "L", "M",
    "N", "O", "P", "Q", "R", "S", "T", "U", "V", "W", "X", "Y", "Z",
    "a", "b", "c", "d", "e", "f", "g", "h", "i", "j", "k", "l", "m",
    "n", "o", "p", "q", "r", "s", "t", "u", "v", "w", "x", "y", "z",
    "0", "1", "2", "3", "4", "5", "6", "7", "8", "9", "+", "/"
  >>

\* encoding/base64 StdEncoding over a sequence of bytes, with padding.
RECURSIVE Base64(_)
Base64(bs) ==
  IF bs = <<>> THEN <<>>
  ELSE IF Len(bs) = 1 THEN
    <<encodeStd[(bs[1] \div 4) + 1], encodeStd[((bs[1] % 4) * 16) + 1],
      "=", "=">>
  ELSE IF Len(bs) = 2 THEN
    <<encodeStd[(bs[1] \div 4) + 1],
      encodeStd[((bs[1] % 4) * 16) + (bs[2] \div 16) + 1],
      encodeStd[((bs[2] % 16) * 4) + 1], "=">>
  ELSE
    <<encodeStd[(bs[1] \div 4) + 1],
      encodeStd[((bs[1] % 4) * 16) + (bs[2] \div 16) + 1],
      encodeStd[((bs[2] % 16) * 4) + (bs[3] \div 64) + 1],
      encodeStd[(bs[3] % 64) + 1]>>
      \o Base64(SubSeq(bs, 4, Len(bs)))

\* mime WordEncoder.bEncode, long content: a character that would take the
\* pending bytes past maxBase64Len starts a new encoded word.
RECURSIVE bEncodeSplit(_, _)
bEncodeSplit(s, pending) ==
  IF s = <<>> THEN Base64(pending)
  ELSE LET r == UTF8Bytes(Head(s))
       IN IF Len(pending) + Len(r) <= maxBase64Len
            THEN bEncodeSplit(Tail(s), pending \o r)
            ELSE Base64(pending) \o splitWord("b") \o bEncodeSplit(Tail(s), r)

\* mime.BEncoding.Encode("UTF-8", s).
bEncode(s) ==
  IF ~needsEncoding(s) THEN s
  ELSE openWord("b")
         \o (IF 4 * ((Len(Bytes(s)) + 2) \div 3) <= maxContentLen
               THEN Base64(Bytes(s))
               ELSE bEncodeSplit(s, <<>>))
         \o closeWord

\* gomail hasSpecials(text).
hasSpecials(text) ==
  \E i \in 1..Len(text) :
    text[i] \in {"(", ")", "<", ">", "[", "]", ":", ";", "@", "\\", ",", ".",
                 "\""}

\* gomail Message.FormatAddress, quoted branch: backslash and quote escaped.
QuoteChar(b) == IF b \in {"\\", "\""} THEN <<"\\", b>> ELSE <<b>>

\* gomail Message.FormatAddress(address, name).
FormatAddress(address, name) ==
  IF name = <<>> THEN address
  ELSE (IF encodeString(name) = name
          THEN <<"\"">> \o Flatten([i \in 1..Len(name) |-> QuoteChar(name[i])])
                 \o <<"\"">>
        ELSE IF hasSpecials(name) THEN bEncode(name)
        ELSE encodeString(name))
       \o <<" ", "<">> \o address \o <<">">>

----------------------------------------------------------------------------
\* JSON values and json.Unmarshal into a mailMessage

JNull == [t |-> "null"]
JNum == [t |-> "num"]
JStr(s) == [t |-> "str", s |-> s]
JArr(a) == [t |-> "arr", a |-> a]
JObj(o) == [t |-> "obj", o |-> o]

\* A nil map / a map with no entries.
NilMap == [k \in {} |-> JNull]

\* The zero value of mailMessage.
ZeroMailMessage ==
  [FromName |-> <<>>, FromAddress |-> <<>>, ToAddress |-> <<>>,
   ReplyToAddress |-> <<>>, Template |-> <<>>, Subject |-> <<>>,
   CC |-> <<>>, BCC |-> <<>>, TemplateContext |-> NilMap]

\* JSON key of each string field of mailMessage.
StringKeys == {"from_name", "from_address", "to_address", "reply_to",
               "template_name", "subject"}

\* A string field: absent or null leaves the old value, a string sets it.
UnmarshalString(o, key, old) ==
  IF key \in DOMAIN o /\ o[key].t = "str" THEN o[key].s ELSE old

\* A []string field: absent keeps the old slice, null makes it nil, an
\* array is decoded INTO the old slice: element i is decoded into the old
\* element i (null or a value that is not a string leaves it as it was, ""
\* past the old length) and the length becomes the array's.
UnmarshalStrings(o, key, old) ==
  IF key \notin DOMAIN o THEN old
  ELSE IF o[key].t = "null" THEN <<>>
  ELSE IF o[key].t = "arr"
    THEN [i \in 1..Len(o[key].a) |->
            IF o[key].a[i].t = "str" THEN o[key].a[i].s
            ELSE IF i <= Len(old) THEN old[i]
            ELSE <<>>]
  ELSE old

\* A map[string]interface{} field: absent keeps the old map, null makes it
\* nil, an object is decoded INTO the old map (entries are added to it).
UnmarshalMap(o, key, old) ==
  IF key \notin DOMAIN o THEN old
  ELSE IF o[key].t = "null" THEN NilMap
  ELSE IF o[key].t = "obj"
    THEN [k \in DOMAIN old \cup DOMAIN o[key].o |->
            IF k \in DOMAIN o[key].o THEN o[key].o[k] ELSE old[k]]
  ELSE old

\* Whether some field of the object has a JSON type its Go field rejects.
TypeMismatch(o) ==
  \/ \E key \in StringKeys \cap DOMAIN o : o[key].t \notin {"str", "null"}
  \/ \E key \in {"cc", "bcc"} \cap DOMAIN o :
       \/ o[key].t \notin {"arr", "null"}
       \/ o[key].t = "arr" /\ \E i \in 1..Len(o[key].a) :
                                 o[key].a[i].t \notin {"str", "null"}
  \/ "template_context" \in DOMAIN o
       /\ o["template_context"].t \notin {"obj", "null"}

\* json.Unmarshal([]byte(body), &mailMsg): err and the struct afterwards.
Unmarshal(body, old) ==
  IF body.syntax # "ok" THEN [err |-> TRUE, v |-> old]
  ELSE IF body.val.t = "null" THEN [err |-> FALSE, v |-> old]
  ELSE IF body.val.t # "obj" THEN [err |-> TRUE, v |-> old]
  ELSE LET o == body.val.o IN
    [err |-> TypeMismatch(o),
     v |-> [FromName |-> UnmarshalString(o, "from_name", old.FromName),
            FromAddress |-> UnmarshalString(o, "from_address", old.FromAddress),
            ToAddress |-> UnmarshalString(o, "to_address", old.ToAddress),
            ReplyToAddress |-> UnmarshalString(o, "reply_to", old.ReplyToAddress),
            Template |-> UnmarshalString(o, "template_name", old.Template),
            Subject |-> UnmarshalString(o, "subject", old.Subject),
            CC |-> UnmarshalStrings(o, "cc", old.CC),
            BCC |-> UnmarshalStrings(o, "bcc", old.BCC),
            TemplateContext |->
              UnmarshalMap(o, "template_context", old.TemplateContext)]]

----------------------------------------------------------------------------
\* Templates: a source is a sequence of tokens

Lit(s) == [k |-> "lit", s |-> s, n |-> "", m |-> ""]
\* {{.n}}
Field(n) == [k |-> "field", s |-> <<>>, n |-> n, m |-> ""]
\* {{.n.m}}
SubField(n, m) == [k |-> "sub", s |-> <<>>, n |-> n, m |-> m]
\* An action that is never closed: a syntax error.
Bad == [k |-> "bad", s |-> <<>>, n |-> "", m |-> ""]

\* What Parse returns with its error discarded: nil on a syntax error.
NilTemplate == [nil |-> TRUE, tree |-> <<>>]

\* (html|text)/template Template.Parse(text), the error dropped by "_".
Parse(text) ==
  IF \E i \in 1..Len(text) : text[i].k = "bad" THEN NilTemplate
  ELSE [nil |-> FALSE, tree |-> text]

\* The value a field chain evaluates to; "invalid" is reflect's zero Value
\* (missing key, nil map or JSON null), "error" aborts execution.
Invalid == [t |-> "invalid"]
ExecError == [t |-> "error"]

\* The final value of a chain: the map's entry, invalid when the key is
\* missing or the entry is nil.
MapIndex(map, n) ==
  IF n \in DOMAIN map /\ map[n].t # "null" THEN map[n] ELSE Invalid

\* text/template exec: evalField over the token's chain, dot is the context.
\* In {{.n.m}} a missing key n gives an invalid receiver, and a field of an
\* invalid receiver is invalid, with no error; a receiver that is there and
\* is nil ("nil pointer evaluating") or is not a map ("can't evaluate
\* field") is an error.
EvalToken(tok, data) ==
  IF tok.k = "field" THEN MapIndex(data, tok.n)
  ELSE IF tok.n \notin DOMAIN data THEN Invalid
  ELSE IF data[tok.n].t = "obj" THEN MapIndex(data[tok.n].o, tok.m)
  ELSE ExecError

\* The keys of a map in the order fmt prints them: sorted (keys are single
\* characters).
RECURSIVE SortedKeys(_)
SortedKeys(keys) ==
  IF keys = {} THEN <<>>
  ELSE LET least == CHOOSE x \in keys : \A y \in keys : Ord(x) <= Ord(y)
       IN <<least>> \o SortedKeys(keys \ {least})

\* Strings joined by single spaces.
RECURSIVE JoinSpace(_)
JoinSpace(ss) ==
  IF ss = <<>> THEN <<>>
  ELSE IF Len(ss) = 1 THEN ss[1]
  ELSE ss[1] \o <<" ">> \o JoinSpace(Tail(ss))

\* fmt.Sprint of a decoded JSON value (a number is the number 7): a slice
\* prints as [a 7], a map as map[k:v x:w], a nil inside either as <nil>.
RECURSIVE Sprint(_)
Sprint(v) ==
  IF v.t = "str" THEN v.s
  ELSE IF v.t = "num" THEN <<"7">>
  ELSE IF v.t = "arr" THEN
    <<"[">> \o JoinSpace([i \in 1..Len(v.a) |-> Sprint(v.a[i])]) \o <<"]">>
  ELSE IF v.t = "obj" THEN
    LET keys == SortedKeys(DOMAIN v.o)
    IN <<"m", "a", "p", "[">>
         \o JoinSpace([i \in 1..Len(keys) |->
                         <<keys[i], ":">> \o Sprint(v.o[keys[i]])])
         \o <<"]">>
  ELSE <<"<", "n", "i", "l", ">">>

\* text/template printValue: an invalid value prints "<no value>".
NoValue == <<"<", "n", "o", " ", "v", "a", "l", "u", "e", ">">>

TextPrint(v) == IF v.t = "invalid" THEN NoValue ELSE Sprint(v)

\* The HTML body rendered with text/template: nothing is escaped.
HTMLEscapeChar_TextTemplate(c) == <<c>>

\* html/template htmlReplacementTable.
HTMLEscapeChar(c) ==
  IF c = "<" THEN <<"&", "l", "t", ";">>
  ELSE IF c = ">" THEN <<"&", "g", "t", ";">>
  ELSE IF c = "&" THEN <<"&", "a", "m", "p", ";">>
  ELSE IF c = "\"" THEN <<"&", "#", "3", "4", ";">>
  ELSE IF c = "'" THEN <<"&", "#", "3", "9", ";">>
  ELSE IF c = "+" THEN <<"&", "#", "4", "3", ";">>
  ELSE <<c>>

HTMLEscapeString(s) == Flatten([i \in 1..Len(s) |-> HTMLEscapeChar(s[i])])

\* html/template htmlEscaper: stringify skips an untyped nil, then escapes.
HTMLPrint(v) ==
  IF v.t = "invalid" THEN <<>> ELSE HTMLEscapeString(Sprint(v))

\* text/template Template.Execute on a parsed template.
RECURSIVE ExecuteText(_, _)
ExecuteText(tree, data) ==
  IF tree = <<>> THEN [err |-> FALSE, out |-> <<>>]
  ELSE LET tok == Head(tree)
           v == EvalToken(tok, data)
           rest == ExecuteText(Tail(tree), data)
       IN IF tok.k = "lit"
            THEN [err |-> rest.err, out |-> tok.s \o rest.out]
          ELSE IF v.t = "error" THEN [err |-> TRUE, out |-> <<>>]
          ELSE [err |-> rest.err, out |-> TextPrint(v) \o rest.out]

\* html/template asciiAlpha(c).
asciiAlpha(c) ==
  /\ c \in PrintableChars
  /\ \/ Ord(c) \in Ord("A")..Ord("Z")
     \/ Ord(c) \in Ord("a")..Ord("z")

\* bytes.ToUpper, one ASCII character.
ToUpper(c) ==
  IF c \in PrintableChars /\ Ord(c) \in Ord("a")..Ord("z")
    THEN Printable[Ord(c) - 63]
    ELSE c

\* bytes.HasPrefix(s[i:], prefix).
HasPrefixAt(s, i, prefix) ==
  /\ i + Len(prefix) - 1 <= Len(s)
  /\ SubSeq(s, i, i + Len(prefix) - 1) = prefix

\* html/template tText: whether the "<" at s[i] opens a tag, that is, a
\* letter follows, or "/" and a letter.
OpensTag(s, i) ==
  /\ i + 1 <= Len(s)
  /\ \/ asciiAlpha(s[i + 1])
     \/ s[i + 1] = "/" /\ i + 2 <= Len(s) /\ asciiAlpha(s[i + 2])

\* html/template escapeText: whether s[i:] starts with "<!DOCTYPE" in any
\* letter case.
IsDoctype(s, i) ==
  /\ i + 8 <= Len(s)
  /\ [j \in 1..9 |-> ToUpper(s[i + j - 1])] =
       <<"<", "!", "D", "O", "C", "T", "Y", "P", "E">>

\* html/template escapeText over the literal text s from position i, in
\* state "text", "tag" or "comment": a comment is removed, a "<" that opens
\* neither a tag nor a doctype becomes "&lt;", the rest is copied (a tag is
\* copied up to its ">"; tags here carry no script, style or attribute
\* that changes the escaping context).
RECURSIVE escapeText(_, _, _)
escapeText(s, i, state) ==
  IF i > Len(s) THEN <<>>
  ELSE IF state = "comment" THEN
    (IF HasPrefixAt(s, i, <<"-", "-", ">">>)
       THEN escapeText(s, i + 3, "text")
       ELSE escapeText(s, i + 1, "comment"))
  ELSE IF state = "tag" THEN
    <<s[i]>> \o escapeText(s, i + 1, IF s[i] = ">" THEN "text" ELSE "tag")
  ELSE IF s[i] # "<" THEN <<s[i]>> \o escapeText(s, i + 1, "text")
  ELSE IF HasPrefixAt(s, i, <<"<", "!", "-", "-">>)
    THEN escapeText(s, i + 4, "comment")
  ELSE IF OpensTag(s, i) THEN <<"<">> \o escapeText(s, i + 1, "tag")
  ELSE IF IsDoctype(s, i) THEN <<"<">> \o escapeText(s, i + 1, "text")
  ELSE <<"&", "l", "t", ";">> \o escapeText(s, i + 1, "text")

\* html/template Template.Execute on a parsed template (actions in HTML
\* text context, every literal starts and ends in it).
RECURSIVE ExecuteHTML(_, _)
ExecuteHTML(tree, data) ==
  IF tree = <<>> THEN [err |-> FALSE, out |-> <<>>]
  ELSE LET tok == Head(tree)
           v == EvalToken(tok, data)
           rest == ExecuteHTML(Tail(tree), data)
       IN IF tok.k = "lit"
            THEN [err |-> rest.err,
                  out |-> escapeText(tok.s, 1, "text") \o rest.out]
          ELSE IF v.t = "error" THEN [err |-> TRUE, out |-> <<>>]
          ELSE [err |-> rest.err, out |-> HTMLPrint(v) \o rest.out]

----------------------------------------------------------------------------
\* Inputs: record bodies, process environment, storage and transport replies

AddrF == <<"f", "@", "x">>
AddrT == <<"t", "@", "x">>
AddrR == <<"r", "@", "x">>
AddrC == <<"c", "@", "x">>
AddrD == <<"d", "@", "x">>

JSONBody(val) == [syntax |-> "ok", val |-> val]

\* Every field present; display name with a quote; markup in the context.
BodyFull ==
  JSONBody(JObj(
    [from_name |-> JStr(<<"J", "\"">>), from_address |-> JStr(AddrF),
     to_address |-> JStr(AddrT), reply_to |-> JStr(AddrR),
     template_name |-> JStr(<<"w">>), subject |-> JStr(<<"H", "i">>),
     cc |-> JArr(<<JStr(AddrC), JStr(AddrD)>>), bcc |-> JArr(<<JStr(AddrD)>>),
     template_context |->
       JObj([k |-> JStr(<<"a", "<", "&">>), o |-> JObj([x |-> JStr(<<"v">>)])])]))

\* No from_name, cc, bcc or template_context; non-ASCII subject.
BodyPlain ==
  JSONBody(JObj(
    [from_address |-> JStr(AddrF), to_address |-> JStr(AddrR),
     reply_to |-> JStr(AddrT), template_name |-> JStr(<<"m">>),
     subject |-> JStr(<<"U+00E9", " ", "?">>)]))

\* No reply_to; non-ASCII display name; cc null; the context's "o" is a
\* number, not a map.
BodyNoReply ==
  JSONBody(JObj(
    [from_name |-> JStr(<<"U+00E9">>), from_address |-> JStr(AddrF),
     to_address |-> JStr(AddrT), template_name |-> JStr(<<"w">>),
     subject |-> JStr(<<"Y", "o">>), cc |-> JNull,
     template_context |-> JObj([k |-> JStr(<<"b">>), o |-> JNum])]))

\* Not JSON at all.
BodyMalformed == [syntax |-> "malformed", val |-> JNull]

\* Valid JSON whose cc is a string, not an array.
BodyTypeErr ==
  JSONBody(JObj(
    [from_address |-> JStr(AddrF), to_address |-> JStr(AddrT),
     reply_to |-> JStr(AddrR), template_name |-> JStr(<<"w">>),
     subject |-> JStr(<<"H", "i">>), cc |-> JStr(AddrC)]))

\* The JSON document null.
BodyNull == JSONBody(JNull)

Bodies == {BodyFull, BodyPlain, BodyNoReply, BodyMalformed, BodyTypeErr,
           BodyNull}

RECURSIVE SeqsUpTo(_, _)
SeqsUpTo(S, n) ==
  IF n = 0 THEN {<<>>}
  ELSE LET shorter == SeqsUpTo(S, n - 1)
       IN shorter \cup {Append(q, x) : q \in {r \in shorter : Len(r) = n - 1},
                                       x \in S}

\* The SQS events: up to MaxBatch records, each with a Body.
Events == SeqsUpTo({[Body |-> b] : b \in Bodies}, MaxBatch)

\* SMTP_PORT in the process environment.
Environments == {[SMTP_PORT |-> p] : p \in {"unset", "587", "abc"}}

\* caarlos0/env Parse(&cfg): fails when SMTP_PORT is not an integer.
EnvParse(e) ==
  IF e.SMTP_PORT = "unset" THEN [err |-> FALSE, SMTPPort |-> DefaultSMTPPort]
  ELSE IF e.SMTP_PORT = "587" THEN [err |-> FALSE, SMTPPort |-> 587]
  ELSE [err |-> TRUE, SMTPPort |-> 0]

\* Template sources the storage may hold.
SrcPlain == <<Lit(<<"h", "i", " ", "<", "3">>)>>
SrcField == <<Lit(<<"<", "b", ">">>), Field("k"), Lit(<<"<", "/", "b", ">">>)>>
SrcSub == <<Field("k"), SubField("o", "x")>>
SrcBad == <<Lit(<<"h">>), Bad>>

TemplateSources == {SrcPlain, SrcField, SrcSub, SrcBad}

\* storageconnector GetTemplateContent: the content, or a failure that ends
\* the invocation.
GetTemplateContent ==
  {[ok |-> TRUE, content |-> src] : src \in TemplateSources}
    \cup {[ok |-> FALSE, content |-> <<>>]}

HTMLSuffix == <<".", "h", "t", "m", "l", ".", "t", "e", "m", "p", "l", "a",
                "t", "e">>
TXTSuffix == <<".", "t", "x", "t", ".", "t", "e", "m", "p", "l", "a", "t",
               "e">>

\* fmt.Sprintf("%s.html.template", mailMsg.Template)
HTMLTemplateName(template) == template \o HTMLSuffix
\* The text template asked for under the HTML name.
TXTTemplateName_HTMLSuffix(template) == template \o HTMLSuffix

\* fmt.Sprintf("%s.txt.template", mailMsg.Template)
TXTTemplateName(template) == template \o TXTSuffix

----------------------------------------------------------------------------
\* buildMailContent, lines 61-80: the gomail message

\* make([]string, len) followed by append instead of an indexed store: len
\* empty strings, then the formatted addresses.
FormatAll_Append(addresses) ==
  [i \in 1..Len(addresses) |-> <<>>]
    \o [i \in 1..Len(addresses) |-> FormatAddress(addresses[i], <<>>)]

\* ccAddresses / bccAddresses: make([]string, len), one FormatAddress each.
FormatAll(addresses) ==
  [i \in 1..Len(addresses) |-> FormatAddress(addresses[i], <<>>)]

\* gomail Message.SetHeader(field, value...): the stored header values.
SetHeader(values) == encodeHeader(values)

\* gomail Message.SetAddressHeader(field, address, name).
SetAddressHeader(address, name) == <<FormatAddress(address, name)>>

\* Reply-To set from the sender's address instead of reply_to.
BuildMessage_ReplyToFrom(m, htmlBody, txtBody) ==
  [Body |-> txtBody,
   Alternative |-> htmlBody,
   From |-> SetAddressHeader(m.FromAddress, m.FromName),
   To |-> SetHeader(<<m.ToAddress>>),
   Subject |-> SetHeader(<<m.Subject>>),
   Cc |-> SetHeader(FormatAll(m.CC)),
   Bcc |-> SetHeader(FormatAll(m.BCC)),
   ReplyTo |-> SetHeader(<<m.FromAddress>>)]

\* Lines 71-78: bodies and headers of the message.
BuildMessage(m, htmlBody, txtBody) ==
  [Body |-> txtBody,
   Alternative |-> htmlBody,
   From |-> SetAddressHeader(m.FromAddress, m.FromName),
   To |-> SetHeader(<<m.ToAddress>>),
   Subject |-> SetHeader(<<m.Subject>>),
   Cc |-> SetHeader(FormatAll(m.CC)),
   Bcc |-> SetHeader(FormatAll(m.BCC)),
   ReplyTo |-> SetHeader(<<m.ReplyToAddress>>)]

\* net/mail ParseAddress, on the model's addresses: an address needs an "@".
Parsable(a) == "@" \in Chars(a)

\* gomail Dialer.DialAndSend(mail): the dial may fail; the send fails when
\* From or a recipient does not parse.
DialAndSendResults(msg) ==
  IF /\ Parsable(msg.From[1])
     /\ \A h \in {msg.To, msg.Cc, msg.Bcc} : \A i \in 1..Len(h) : Parsable(h[i])
  THEN {TRUE, FALSE}
  ELSE {FALSE}

----------------------------------------------------------------------------
\* HandleRequest as a state machine

VARIABLES
  env,             \* process environment read by env.Parse
  event,           \* event.Records of the invocation
  pc,              \* position in HandleRequest / buildMailContent
  idx,             \* index of the record the range loop is at (0: none yet)
  cfg,             \* the parsed config
  mailMsg,         \* the mailMsg the record is decoded into
  htmlTmpl,        \* result of the HTML Parse
  txtTmpl,         \* result of the text Parse
  htmlTmplBuffer,  \* rendered HTML body
  txtTmplBuffer,   \* rendered text body
  mail,            \* the message buildMailContent returns
  calls,           \* every call made to a collaborator or library, in order
  stderr           \* what exitErrorf wrote to os.Stderr

vars == <<env, event, pc, idx, cfg, mailMsg, htmlTmpl, txtTmpl,
          htmlTmplBuffer, txtTmplBuffer, mail, calls, stderr>>

NoMail == BuildMessage(ZeroMailMessage, <<>>, <<>>)

Call(op, arg, ok) == [op |-> op, rec |-> idx, arg |-> arg, ok |-> ok]

Init ==
  /\ env \in Environments
  /\ event \in Events
  /\ pc = "start"
  /\ idx = 0
  /\ cfg = [SMTPPort |-> 0]
  /\ mailMsg = ZeroMailMessage
  /\ htmlTmpl = NilTemplate
  /\ txtTmpl = NilTemplate
  /\ htmlTmplBuffer = <<>>
  /\ txtTmplBuffer = <<>>
  /\ mail = NoMail
  /\ calls = <<>>
  /\ stderr = <<>>

\* exitErrorf without the os.Exit: the error is logged and the loop goes on
\* with the next record.
exitErrorf_NoExit(msg) ==
  /\ stderr' = Append(stderr, msg)
  /\ pc' = "range"

\* exitErrorf: write the message to stderr, then os.Exit(1).
exitErrorf(msg) ==
  /\ stderr' = Append(stderr, msg)
  /\ pc' = "exited"

\* A deferred recover() in the handler that swallows the panic: the handler
\* returns nil.
Panic_Recovered ==
  /\ pc' = "returned"
  /\ UNCHANGED stderr

\* Execute on a nil *Template dereferences nil: the handler panics with a
\* runtime error and nothing is written by exitErrorf.
Panic ==
  /\ pc' = "panicked"
  /\ UNCHANGED stderr

\* mailMsg declared once, before the loop: Unmarshal decodes every record
\* into the struct the previous record left.
NewMailMsg_DeclaredOutsideLoop(previous) == previous

\* var mailMsg mailMessage, declared inside the loop body: a fresh zero value
\* for every record, whatever the previous record left.
NewMailMsg(previous) == ZeroMailMessage

\* The configuration parsed with its error dropped: the handler goes on with
\* the zero config.
ParseConfig_IgnoreErr ==
  /\ pc = "start"
  /\ cfg' = [SMTPPort |-> EnvParse(env).SMTPPort]
  /\ pc' = "range"
  /\ UNCHANGED <<env, event, idx, mailMsg, htmlTmpl, txtTmpl, htmlTmplBuffer,
                 txtTmplBuffer, mail, calls, stderr>>

\* Lines 85-90: parse the configuration, create the dialer.
ParseConfig ==
  /\ pc = "start"
  /\ LET r == EnvParse(env) IN
       IF r.err
         THEN /\ exitErrorf("Unable to parse configuration")
              /\ UNCHANGED cfg
         ELSE /\ cfg' = [SMTPPort |-> r.SMTPPort]
              /\ pc' = "range"
              /\ UNCHANGED stderr
  /\ UNCHANGED <<env, event, idx, mailMsg, htmlTmpl, txtTmpl, htmlTmplBuffer,
                 txtTmplBuffer, mail, calls>>

\* Line 92: the range loop takes the next record, or the handler returns nil.
Range ==
  /\ pc = "range"
  /\ IF idx < Len(event)
       THEN idx' = idx + 1 /\ pc' = "unmarshal"
       ELSE idx' = idx /\ pc' = "returned"
  /\ UNCHANGED <<env, event, cfg, mailMsg, htmlTmpl, txtTmpl, htmlTmplBuffer,
                 txtTmplBuffer, mail, calls, stderr>>

\* The decode with its error check dropped: the record goes on to
\* buildMailContent whatever Unmarshal returned.
UnmarshalRecord_IgnoreErr ==
  /\ pc = "unmarshal"
  /\ LET r == Unmarshal(event[idx].Body, NewMailMsg(mailMsg)) IN
       /\ mailMsg' = r.v
       /\ calls' = Append(calls, Call("Unmarshal", <<>>, ~r.err))
       /\ pc' = "html_parse"
  /\ UNCHANGED <<env, event, idx, cfg, htmlTmpl, txtTmpl, htmlTmplBuffer,
                 txtTmplBuffer, mail, stderr>>

\* Lines 93-100: decode the record body.
UnmarshalRecord ==
  /\ pc = "unmarshal"
  /\ LET r == Unmarshal(event[idx].Body, NewMailMsg(mailMsg)) IN
       /\ mailMsg' = r.v
       /\ calls' = Append(calls, Call("Unmarshal", <<>>, ~r.err))
       /\ IF r.err
            THEN exitErrorf("Unable to unmarshal JSON")
            ELSE pc' = "html_parse" /\ UNCHANGED stderr
  /\ UNCHANGED <<env, event, idx, cfg, htmlTmpl, txtTmpl, htmlTmplBuffer,
                 txtTmplBuffer, mail>>

\* Line 46: fetch the HTML template and parse it.
ParseHTMLTemplate ==
  /\ pc = "html_parse"
  /\ \E reply \in GetTemplateContent :
       /\ calls' = calls \o
            <<Call("GetTemplateContent", HTMLTemplateName(mailMsg.Template),
                   reply.ok)>> \o
            (IF reply.ok
               THEN <<Call("ParseHTML", <<>>, ~Parse(reply.content).nil)>>
               ELSE <<>>)
       /\ IF reply.ok
            THEN /\ htmlTmpl' = Parse(reply.content)
                 /\ pc' = "txt_parse"
                 /\ UNCHANGED stderr
            ELSE /\ exitErrorf("Unable to get template")
                 /\ UNCHANGED htmlTmpl
  /\ UNCHANGED <<env, event, idx, cfg, mailMsg, txtTmpl, htmlTmplBuffer,
                 txtTmplBuffer, mail>>

\* Line 47: fetch the text template and parse it.
ParseTXTTemplate ==
  /\ pc = "txt_parse"
  /\ \E reply \in GetTemplateContent :
       /\ calls' = calls \o
            <<Call("GetTemplateContent", TXTTemplateName(mailMsg.Template),
                   reply.ok)>> \o
            (IF reply.ok
               THEN <<Call("ParseTXT", <<>>, ~Parse(reply.content).nil)>>
               ELSE <<>>)
       /\ IF reply.ok
            THEN /\ txtTmpl' = Parse(reply.content)
                 /\ pc' = "html_execute"
                 /\ UNCHANGED stderr
            ELSE /\ exitErrorf("Unable to get template")
                 /\ UNCHANGED txtTmpl
  /\ UNCHANGED <<env, event, idx, cfg, mailMsg, htmlTmpl, htmlTmplBuffer,
                 txtTmplBuffer, mail>>

\* Lines 49-53: execute the HTML template on the context.
ExecuteHTMLTemplate ==
  /\ pc = "html_execute"
  /\ IF htmlTmpl.nil
       THEN /\ Panic
            /\ calls' = Append(calls, Call("ExecuteHTML", <<>>, FALSE))
            /\ UNCHANGED htmlTmplBuffer
       ELSE LET r == ExecuteHTML(htmlTmpl.tree, mailMsg.TemplateContext) IN
              /\ calls' = Append(calls, Call("ExecuteHTML", <<>>, ~r.err))
              /\ IF r.err
                   THEN /\ exitErrorf("Unable to execute HTML template")
                        /\ UNCHANGED htmlTmplBuffer
                   ELSE /\ htmlTmplBuffer' = r.out
                        /\ pc' = "txt_execute"
                        /\ UNCHANGED stderr
  /\ UNCHANGED <<env, event, idx, cfg, mailMsg, htmlTmpl, txtTmpl,
                 txtTmplBuffer, mail>>

\* Lines 55-59: execute the text template on the context.
ExecuteTXTTemplate ==
  /\ pc = "txt_execute"
  /\ IF txtTmpl.nil
       THEN /\ Panic
            /\ calls' = Append(calls, Call("ExecuteTXT", <<>>, FALSE))
            /\ UNCHANGED txtTmplBuffer
       ELSE LET r == ExecuteText(txtTmpl.tree, mailMsg.TemplateContext) IN
              /\ calls' = Append(calls, Call("ExecuteTXT", <<>>, ~r.err))
              /\ IF r.err
                   THEN /\ exitErrorf("Unable to execute TXT template")
                        /\ UNCHANGED txtTmplBuffer
                   ELSE /\ txtTmplBuffer' = r.out
                        /\ pc' = "assemble"
                        /\ UNCHANGED stderr
  /\ UNCHANGED <<env, event, idx, cfg, mailMsg, htmlTmpl, txtTmpl,
                 htmlTmplBuffer, mail>>

\* Lines 61-80: format cc and bcc, set bodies and headers, return the message.
Assemble ==
  /\ pc = "assemble"
  /\ mail' = BuildMessage(mailMsg, htmlTmplBuffer, txtTmplBuffer)
  /\ pc' = "send"
  /\ UNCHANGED <<env, event, idx, cfg, mailMsg, htmlTmpl, txtTmpl,
                 htmlTmplBuffer, txtTmplBuffer, calls, stderr>>

\* The send with "return nil" inside the loop: the handler returns after the
\* first record it sent.
DialAndSend_ReturnInLoop ==
  /\ pc = "send"
  /\ \E ok \in DialAndSendResults(mail) :
       /\ calls' = Append(calls, Call("DialAndSend", mail, ok))
       /\ IF ok
            THEN pc' = "returned" /\ UNCHANGED stderr
            ELSE exitErrorf("Unable to send mail")
  /\ UNCHANGED <<env, event, idx, cfg, mailMsg, htmlTmpl, txtTmpl,
                 htmlTmplBuffer, txtTmplBuffer, mail>>

\* The send retried by the handler: after a transport failure the same
\* message is handed to the transport again.
DialAndSend_Retry ==
  /\ pc = "send"
  /\ \E ok \in DialAndSendResults(mail) :
       /\ calls' = Append(calls, Call("DialAndSend", mail, ok))
       /\ IF ok
            THEN pc' = "range" /\ UNCHANGED stderr
            ELSE pc' = "send" /\ stderr' = Append(stderr, "Unable to send mail")
  /\ UNCHANGED <<env, event, idx, cfg, mailMsg, htmlTmpl, txtTmpl,
                 htmlTmplBuffer, txtTmplBuffer, mail>>

\* Lines 104-106: hand the message to the SMTP transport.
DialAndSend ==
  /\ pc = "send"
  /\ \E ok \in DialAndSendResults(mail) :
       /\ calls' = Append(calls, Call("DialAndSend", mail, ok))
       /\ IF ok
            THEN pc' = "range" /\ UNCHANGED stderr
            ELSE exitErrorf("Unable to send mail")
  /\ UNCHANGED <<env, event, idx, cfg, mailMsg, htmlTmpl, txtTmpl,
                 htmlTmplBuffer, txtTmplBuffer, mail>>

Next ==
  \/ ParseConfig
  \/ Range
  \/ UnmarshalRecord
  \/ ParseHTMLTemplate
  \/ ParseTXTTemplate
  \/ ExecuteHTMLTemplate
  \/ ExecuteTXTTemplate
  \/ Assemble
  \/ DialAndSend

Spec == Init /\ [][Next]_vars

----------------------------------------------------------------------------
\* Properties

\* The positions in the call log of the calls named op.
CallsOf(op) == {i \in 1..Len(calls) : calls[i].op = op}

\* The dispatch calls, in the order they were made.
RECURSIVE Dispatched(_)
Dispatched(log) ==
  IF log = <<>> THEN <<>>
  ELSE IF Head(log).op = "DialAndSend"
    THEN <<Head(log)>> \o Dispatched(Tail(log))
    ELSE Dispatched(Tail(log))

\* The request each body decodes to on its own.
DecodedAlone == [b \in Bodies |-> Unmarshal(b, ZeroMailMessage).v]

\* The request the body of record r decodes to on its own.
Request(r) == DecodedAlone[event[r].Body]

\* The templates that parse.
ParsableSources == {src \in TemplateSources : ~Parse(src).nil}

\* The text bodies and the HTML bodies the templates give on the context of
\* each body decoded on its own.
TextBodiesAlone ==
  [b \in Bodies |->
     {ExecuteText(t, DecodedAlone[b].TemplateContext).out :
        t \in {src \in ParsableSources :
                 ~ExecuteText(src, DecodedAlone[b].TemplateContext).err}}]

HTMLBodiesAlone ==
  [b \in Bodies |->
     {ExecuteHTML(h, DecodedAlone[b].TemplateContext).out :
        h \in {src \in ParsableSources :
                 ~ExecuteHTML(src, DecodedAlone[b].TemplateContext).err}}]

\* C1: fail-fast. Once any step of record i has failed (decode, template
\* fetch, template parse, HTML or text render, dispatch), no call of any kind
\* is made for a record after i: every call in the log belongs to record i or
\* an earlier one, and the loop never moves past record i.
FailFast ==
  \A i \in 1..Len(calls) :
    ~calls[i].ok =>
      /\ \A j \in 1..Len(calls) : calls[j].rec <= calls[i].rec
      /\ idx = calls[i].rec

\* The transport refused the message of record 1 and the invocation is over,
\* with a fully valid record 2 untouched.
FailFastWitness ==
  /\ Len(event) = 2
  /\ event[1].Body = BodyFull
  /\ event[2].Body = BodyFull
  /\ pc = "exited"
  /\ idx = 1
  /\ calls[Len(calls)].op = "DialAndSend"
  /\ ~calls[Len(calls)].ok
  /\ stderr = <<"Unable to send mail">>

\* C2: dispatch order and count. The k-th dispatch call of an invocation is
\* for the k-th record and carries the addresses and subject of that record;
\* when the handler returns nil, there were exactly as many dispatch calls as
\* records.
DispatchOrderAndCount ==
  LET sent == Dispatched(calls) IN
    /\ \A k \in 1..Len(sent) :
         /\ sent[k].rec = k
         /\ sent[k].arg.From = <<FormatAddress(Request(k).FromAddress,
                                               Request(k).FromName)>>
         /\ sent[k].arg.To = <<encodeString(Request(k).ToAddress)>>
         /\ sent[k].arg.Subject = <<encodeString(Request(k).Subject)>>
    /\ pc = "returned" => Len(sent) = Len(event)

\* Two different records, both sent, and the handler returned nil.
DispatchOrderAndCountWitness ==
  /\ pc = "returned"
  /\ Len(event) = 2
  /\ event[1].Body = BodyPlain
  /\ event[2].Body = BodyFull
  /\ Len(Dispatched(calls)) = 2

\* A body json.Unmarshal rejects: not JSON, a JSON document that is not an
\* object, or an object with a field of the wrong JSON type.
NotStructuredInput(body) ==
  \/ body.syntax # "ok"
  \/ body.val.t \notin {"obj", "null"}
  \/ body.val.t = "obj" /\ TypeMismatch(body.val.o)

\* C3: decode short-circuit. For a record whose body is not valid structured
\* input the only call ever made is the failing Unmarshal: no template fetch,
\* no parse, no render and no dispatch.
DecodeShortCircuit ==
  \A r \in 1..Len(event) :
    NotStructuredInput(event[r].Body) =>
      \A i \in 1..Len(calls) :
        calls[i].rec = r => calls[i].op = "Unmarshal" /\ ~calls[i].ok

\* A malformed second record was decoded, after a first record that was sent.
DecodeShortCircuitWitness ==
  /\ Len(event) = 2
  /\ event[2].Body = BodyMalformed
  /\ idx = 2
  /\ pc = "exited"
  /\ calls[Len(calls)].op = "Unmarshal"
  /\ calls[Len(calls)].rec = 2
  /\ stderr = <<"Unable to unmarshal JSON">>

\* Messages a report of a template syntax error would carry.
TemplateParseErrors == {"Unable to parse HTML template",
                        "Unable to parse TXT template"}

\* C4: template parse failure is surfaced. Once the HTML or the text template
\* of a record failed to parse, the record is neither rendered nor dispatched,
\* and the invocation ends by writing a template parse error to stderr.
ParseFailureSurfaced ==
  \A i \in CallsOf("ParseHTML") \cup CallsOf("ParseTXT") :
    ~calls[i].ok =>
      /\ \A j \in 1..Len(calls) :
           (j > i /\ calls[j].op \in {"ExecuteHTML", "ExecuteTXT", "DialAndSend"})
             => ~calls[j].ok
      /\ pc \in {"exited", "panicked", "returned"} =>
           /\ pc = "exited"
           /\ stderr # <<>>
           /\ stderr[Len(stderr)] \in TemplateParseErrors

\* C5: required fields. Every record that goes past decoding (template fetch,
\* parse, render, dispatch) has non-empty from_address, to_address and
\* reply_to.
RequiredFieldsNonEmpty ==
  \A i \in 1..Len(calls) :
    calls[i].op # "Unmarshal" =>
      /\ Request(calls[i].rec).FromAddress # <<>>
      /\ Request(calls[i].rec).ToAddress # <<>>
      /\ Request(calls[i].rec).ReplyToAddress # <<>>

\* C6 as stated: the To, Subject and Reply-To headers of every dispatched
\* message equal the record's to_address, subject and reply_to, untransformed.
HeadersVerbatim ==
  \A i \in CallsOf("DialAndSend") :
    /\ calls[i].arg.To = <<Request(calls[i].rec).ToAddress>>
    /\ calls[i].arg.Subject = <<Request(calls[i].rec).Subject>>
    /\ calls[i].arg.ReplyTo = <<Request(calls[i].rec).ReplyToAddress>>

\* The start of an RFC 2047 encoded word in UTF-8 and Q encoding.
QWordStart == <<"=", "?", "U", "T", "F", "-", "8", "?", "q", "?">>

\* The value of a hexadecimal digit.
HexVal(d) == (CHOOSE i \in 1..Len(upperhex) : upperhex[i] = d) - 1

\* What a reader of RFC 2047 Q encoded words gets back from a header value:
\* word delimiters and the space between words dropped, "_" read as a space,
\* "=XX" as the byte XX (two bytes for e-acute).
RECURSIVE QDecode(_)
QDecode(h) ==
  IF h = <<>> THEN <<>>
  ELSE IF HasPrefixAt(h, 1, QWordStart)
    THEN QDecode(SubSeq(h, Len(QWordStart) + 1, Len(h)))
  ELSE IF HasPrefixAt(h, 1, <<"?", "=", " ">>)
    THEN QDecode(SubSeq(h, 4, Len(h)))
  ELSE IF h = <<"?", "=">> THEN <<>>
  ELSE IF HasPrefixAt(h, 1, <<"=", "C", "3", "=", "A", "9">>)
    THEN <<"U+00E9">> \o QDecode(SubSeq(h, 7, Len(h)))
  ELSE IF h[1] = "=" /\ Len(h) >= 3
    THEN <<Printable[(HexVal(h[2]) * 16) + HexVal(h[3]) - 31]>>
           \o QDecode(SubSeq(h, 4, Len(h)))
  ELSE IF h[1] = "_" THEN <<" ">> \o QDecode(Tail(h))
  ELSE <<h[1]>> \o QDecode(Tail(h))

\* C6, amended: each of the To, Subject and Reply-To headers of a dispatched
\* message has one value; it equals the record's field when the field is
\* printable ASCII, and otherwise it differs from the field and is made of
\* RFC 2047 Q encoded words that decode to the field.
HeadersVerbatimIfASCII ==
  \A i \in CallsOf("DialAndSend") :
    \A p \in {<<calls[i].arg.To, Request(calls[i].rec).ToAddress>>,
              <<calls[i].arg.Subject, Request(calls[i].rec).Subject>>,
              <<calls[i].arg.ReplyTo, Request(calls[i].rec).ReplyToAddress>>} :
      /\ Len(p[1]) = 1
      /\ IF Chars(p[2]) \cap NonASCII = {}
           THEN p[1][1] = p[2]
           ELSE /\ p[1][1] # p[2]
                /\ HasPrefixAt(p[1][1], 1, QWordStart)
                /\ QDecode(p[1][1]) = p[2]

\* A record with ASCII addresses and a non-ASCII subject was sent, and so was
\* one with an ASCII subject.
HeadersVerbatimIfASCIIWitness ==
  /\ Len(event) = 2
  /\ event[1].Body = BodyFull
  /\ event[2].Body = BodyPlain
  /\ \E i \in CallsOf("DialAndSend") :
       /\ calls[i].rec = 2
       /\ calls[i].ok
       /\ calls[i].arg.To = <<AddrR>>
       /\ calls[i].arg.ReplyTo = <<AddrT>>
       /\ calls[i].arg.Subject =
            <<QWordStart \o <<"=", "C", "3", "=", "A", "9", "_", "=", "3", "F",
                              "?", "=">> >>
  /\ \E i \in CallsOf("DialAndSend") :
       calls[i].rec = 1 /\ calls[i].arg.Subject = <<(<<"H", "i">>)>>

\* C7: template fetches per record. For every dispatched record exactly two
\* template fetches were issued, both before the dispatch: first
\* <template_name>.html.template, then <template_name>.txt.template.
TwoFetchesPerRecord ==
  \A i \in CallsOf("DialAndSend") :
    LET mine == {j \in CallsOf("GetTemplateContent") :
                   calls[j].rec = calls[i].rec}
    IN /\ Cardinality(mine) = 2
       /\ \E a, b \in mine :
            /\ a < b
            /\ b < i
            /\ calls[a].arg = Request(calls[i].rec).Template \o HTMLSuffix
            /\ calls[b].arg = Request(calls[i].rec).Template \o TXTSuffix

\* Two records naming the same template were both sent: four fetches.
TwoFetchesPerRecordWitness ==
  /\ Len(event) = 2
  /\ Request(1).Template = Request(2).Template
  /\ Request(1).Template = <<"w">>
  /\ Len(Dispatched(calls)) = 2
  /\ Cardinality(CallsOf("GetTemplateContent")) = 4

\* C8: no state carried between records. Every dispatched message is the
\* message built from the record's own body, decoded on its own, and two
\* templates rendered on that record's context.
NoStateCarried ==
  \A i \in CallsOf("DialAndSend") :
    LET q == Request(calls[i].rec) IN
      /\ calls[i].arg.Body \in TextBodiesAlone[event[calls[i].rec].Body]
      /\ calls[i].arg.Alternative \in HTMLBodiesAlone[event[calls[i].rec].Body]
      /\ calls[i].arg.From = <<FormatAddress(q.FromAddress, q.FromName)>>
      /\ calls[i].arg.Cc = encodeHeader(q.CC)
      /\ calls[i].arg.Bcc = encodeHeader(q.BCC)
      /\ calls[i].arg.ReplyTo = encodeHeader(<<q.ReplyToAddress>>)

\* A record with from_name, cc, bcc and a context was sent, then one whose
\* body has none of them: its message has no Cc, no Bcc, an address-only From
\* and a text body rendered with the key missing.
NoStateCarriedWitness ==
  /\ Len(event) = 2
  /\ event[1].Body = BodyFull
  /\ event[2].Body = BodyPlain
  /\ Len(Dispatched(calls)) = 2
  /\ Dispatched(calls)[1].arg.Cc = <<AddrC, AddrD>>
  /\ Dispatched(calls)[2].arg.Cc = <<>>
  /\ Dispatched(calls)[2].arg.Bcc = <<>>
  /\ Dispatched(calls)[2].arg.From = <<AddrF>>
  /\ Dispatched(calls)[2].arg.Body =
       <<"<", "b", ">">> \o NoValue \o <<"<", "/", "b", ">">>

\* Occurrences of c in the literal text of a template.
RECURSIVE LitCount(_, _)
LitCount(c, tree) ==
  IF tree = <<>> THEN 0
  ELSE (IF Head(tree).k = "lit" THEN Count(c, Head(tree).s) ELSE 0)
         + LitCount(c, Tail(tree))

\* Occurrences of c in the literal text of a template as the HTML mode writes
\* it, that is, in the HTML the template gives when no action prints anything.
RECURSIVE HTMLLitCount(_, _)
HTMLLitCount(c, tree) ==
  IF tree = <<>> THEN 0
  ELSE (IF Head(tree).k = "lit"
          THEN Count(c, escapeText(Head(tree).s, 1, "text"))
          ELSE 0)
         + HTMLLitCount(c, Tail(tree))

\* Number of {{.k}} actions in a template.
RECURSIVE RefCount(_)
RefCount(tree) ==
  IF tree = <<>> THEN 0
  ELSE (IF Head(tree).k = "field" /\ Head(tree).n = "k" THEN 1 ELSE 0)
         + RefCount(Tail(tree))

\* The string the body of the current record gives for context key k, when it
\* has markup-significant characters; <<>> otherwise.
MarkupValue ==
  LET b == event[idx].Body IN
    IF /\ b.syntax = "ok"
       /\ b.val.t = "obj"
       /\ "template_context" \in DOMAIN b.val.o
       /\ b.val.o["template_context"].t = "obj"
       /\ "k" \in DOMAIN b.val.o["template_context"].o
       /\ b.val.o["template_context"].o["k"].t = "str"
       /\ Chars(b.val.o["template_context"].o["k"].s) \cap {"<", "&"} # {}
    THEN b.val.o["template_context"].o["k"].s
    ELSE <<>>

\* C9: escaping policy. When the record's context value has markup-significant
\* characters and both bodies are rendered: the HTML body has exactly the
\* "<" and ">" its template gives on its own, with no value printed, and one
\* "&" more than that for every markup character of every interpolated value
\* (the start of its entity); the text body has the markup characters of its
\* template plus those of every interpolated value, unescaped.
EscapingPolicy ==
  (pc \in {"assemble", "send"} /\ MarkupValue # <<>>) =>
    /\ \A c \in {"<", ">"} :
         Count(c, htmlTmplBuffer) = HTMLLitCount(c, htmlTmpl.tree)
    /\ Count("&", htmlTmplBuffer) =
         HTMLLitCount("&", htmlTmpl.tree)
           + RefCount(htmlTmpl.tree)
               * (Count("<", MarkupValue) + Count("&", MarkupValue))
    /\ \A c \in {"<", "&"} :
         Count(c, txtTmplBuffer) =
           LitCount(c, txtTmpl.tree) + RefCount(txtTmpl.tree) * Count(c, MarkupValue)
    /\ pc = "send" =>
         mail.Alternative = htmlTmplBuffer /\ mail.Body = txtTmplBuffer

\* The value a<& rendered by <b>{{.k}}</b> in both modes.
EscapingPolicyWitness ==
  /\ pc = "send"
  /\ MarkupValue = <<"a", "<", "&">>
  /\ htmlTmpl.tree = SrcField
  /\ txtTmpl.tree = SrcField
  /\ mail.Alternative = <<"<", "b", ">", "a", "&", "l", "t", ";", "&", "a",
                          "m", "p", ";", "<", "/", "b", ">">>
  /\ mail.Body = <<"<", "b", ">", "a", "<", "&", "<", "/", "b", ">">>

\* The cc or bcc array of a record's body, as the strings it decodes to; empty
\* when the key is absent or null.
InputAddresses(r, key) ==
  LET b == event[r].Body IN
    IF b.val.t = "obj" /\ key \in DOMAIN b.val.o /\ b.val.o[key].t = "arr"
      THEN [k \in 1..Len(b.val.o[key].a) |->
              IF b.val.o[key].a[k].t = "str" THEN b.val.o[key].a[k].s ELSE <<>>]
      ELSE <<>>

\* C10: cc/bcc formatting preserves shape. The Cc (Bcc) header of every
\* dispatched message has as many values as the record's cc (bcc) has
\* addresses, and its k-th value is the header form of the k-th address
\* formatted without a display name; no cc (bcc) gives no value.
CcBccShape ==
  \A i \in CallsOf("DialAndSend") :
    \A p \in {<<calls[i].arg.Cc, InputAddresses(calls[i].rec, "cc")>>,
              <<calls[i].arg.Bcc, InputAddresses(calls[i].rec, "bcc")>>} :
      /\ Len(p[1]) = Len(p[2])
      /\ \A k \in 1..Len(p[2]) :
           p[1][k] = encodeString(FormatAddress(p[2][k], <<>>))

\* A record whose cc is null and has no bcc was sent, then one with two cc
\* and one bcc.
CcBccShapeWitness ==
  /\ Len(event) = 2
  /\ event[1].Body = BodyNoReply
  /\ event[2].Body = BodyFull
  /\ Len(Dispatched(calls)) = 2
  /\ Dispatched(calls)[1].ok
  /\ Dispatched(calls)[1].arg.Cc = <<>>
  /\ Dispatched(calls)[1].arg.Bcc = <<>>
  /\ Dispatched(calls)[2].arg.Cc = <<AddrC, AddrD>>
  /\ Dispatched(calls)[2].arg.Bcc = <<AddrD>>

\* C11: dispatch precondition and no retry. A record is handed to the
\* transport at most once, and only after its body was decoded and its HTML
\* and its text body were rendered, all three without error and in that
\* order; a dispatch call that failed is the last dispatch call of the
\* invocation.
DispatchOnceAfterRender ==
  \A i \in CallsOf("DialAndSend") :
    /\ \A j \in CallsOf("DialAndSend") : calls[j].rec = calls[i].rec => j = i
    /\ \E d \in CallsOf("Unmarshal"), h \in CallsOf("ExecuteHTML"),
          t \in CallsOf("ExecuteTXT") :
         /\ d < h /\ h < t /\ t < i
         /\ \A c \in {d, h, t} : calls[c].rec = calls[i].rec /\ calls[c].ok
    /\ ~calls[i].ok => \A j \in CallsOf("DialAndSend") : j <= i

\* Record 1 was sent, the transport refused record 2, and the invocation is
\* over with two dispatch calls in all.
DispatchOnceAfterRenderWitness ==
  /\ Len(event) = 2
  /\ pc = "exited"
  /\ Len(Dispatched(calls)) = 2
  /\ Dispatched(calls)[1].ok
  /\ ~Dispatched(calls)[2].ok
  /\ calls[Len(calls)].op = "DialAndSend"

\* The steps every record of a successful invocation went through.
RecordSteps == {"Unmarshal", "ExecuteHTML", "ExecuteTXT", "DialAndSend"}

\* C12: success means complete batch. When the handler has returned nil,
\* every record of the batch was decoded, rendered twice and dispatched, all
\* without error, and no call failed. Once a call has failed the handler never
\* returns nil: the invocation ends by os.Exit(1) or by a panic (at once,
\* unless the failure is a template parse, whose panic comes with Execute),
\* and every record before the failing one has been dispatched successfully.
SuccessMeansComplete ==
  /\ pc = "returned" =>
       /\ \A i \in 1..Len(calls) : calls[i].ok
       /\ \A r \in 1..Len(event) : \A op \in RecordSteps :
            \E i \in CallsOf(op) : calls[i].rec = r /\ calls[i].ok
  /\ stderr # <<>> => pc = "exited"
  /\ \A i \in 1..Len(calls) :
       ~calls[i].ok =>
         /\ pc # "returned"
         /\ calls[i].op \notin {"ParseHTML", "ParseTXT"}
              => pc \in {"exited", "panicked"}
         /\ \A r \in 1..(calls[i].rec - 1) :
              \E j \in CallsOf("DialAndSend") :
                j < i /\ calls[j].rec = r /\ calls[j].ok

\* Record 1 was sent, the text template of record 2 could not be executed on
\* its context (it takes a field of "o", which is a number there), and the
\* invocation exited.
SuccessMeansCompleteWitness ==
  /\ Len(event) = 2
  /\ event[1].Body = BodyFull
  /\ event[2].Body = BodyNoReply
  /\ txtTmpl.tree = SrcSub
  /\ calls[Len(calls)].op = "ExecuteTXT"
  /\ ~calls[Len(calls)].ok
  /\ pc = "exited"
  /\ stderr = <<"Unable to execute TXT template">>
  /\ Len(Dispatched(calls)) = 1
  /\ Dispatched(calls)[1].ok
  /\ Dispatched(calls)[1].rec = 1

\* C13: configuration failure precedes all work. When SMTP_PORT is not an
\* integer, env.Parse fails and the invocation exits with no record decoded,
\* no template fetched and no message dispatched: the call log stays empty
\* and the loop is never entered.
ConfigFailureFirst ==
  env.SMTP_PORT \notin {"unset", "587"} =>
    /\ calls = <<>>
    /\ idx = 0
    /\ pc \in {"start", "exited"}
    /\ pc = "exited" => stderr = <<"Unable to parse configuration">>

\* The configuration did not parse and the invocation exited, with two valid
\* records waiting in the event.
ConfigFailureFirstWitness ==
  /\ env.SMTP_PORT = "abc"
  /\ pc = "exited"
  /\ stderr = <<"Unable to parse configuration">>
  /\ Len(event) = 2
  /\ event[1].Body = BodyFull
  /\ event[2].Body = BodyPlain
  /\ calls = <<>>

====
